---- MODULE Spec2Model ----
(***************************************************************************)
(* prometheus_to_datadog: a bridge that, on every tick of a fixed-interval *)
(* ticker, runs each configured Prometheus instant query and pushes every  *)
(* returned sample to dogstatsd, counting its own successes and failures.  *)
(*                                                                         *)
(* Strings that the code transforms (metric names, tags, flag values) are  *)
(* sequences of characters/tokens, so that TrimSpace, Sprintf and SplitN   *)
(* are computed and not assumed.  Strings the code only passes around      *)
(* (query expressions, type names, label keys) are TLA+ strings.           *)
(* src/main.go holds two revisions of the program: the YAML-configured one *)
(* (lines 1-189) and the flag-configured one (lines 191-388).  They share  *)
(* the runner and the scheduler and differ in how the queries are loaded;  *)
(* the variable loader says which main() is running.                       *)
(***************************************************************************)
EXTENDS Integers, Sequences, FiniteSets, Bags, TLC

VARIABLES
    loader,               \* "yaml" (main, l.145) or "flags" (main, l.361)
    raw,                  \* the configuration as written by the operator
    queries,              \* the query list handed to startQuerying
    pc,                   \* position of the process / scheduler goroutine
    clock,                \* number of ticker periods elapsed
    tickerC,              \* ticker.C, a channel of capacity 1
    now,                  \* the loop variable of `for now := range ticker.C`
    qi,                   \* index of the query the tick is at
    results,              \* the vector returned by queryAPI.Query
    returned,             \* number of samples the backend has returned so far
    limits,               \* how far the behaviour is explored (never changes)
    si,                   \* index of the sample the run is at
    pushes,               \* statsd calls issued by the current run, in order
    calls,                \* queryAPI.Query calls issued by the current tick
    ret,                  \* value returned by the last finished runQuery
    rounds,               \* number of ticks startQuerying has received
    mark,                 \* the three counters as the current run found them
    pushCalls,            \* number of statsd calls issued so far
    pushedMetrics,        \* CounterVec pushed_metrics_total
    failedQueries,        \* CounterVec failed_queries_total
    failedPushedMetrics   \* CounterVec failed_pushed_metrics_total

vars == <<loader, raw, queries, pc, clock, tickerC, now, qi, results, returned, limits, si,
          pushes, calls, ret, rounds, mark, pushCalls,
          pushedMetrics, failedQueries, failedPushedMetrics>>

(***************************************************************************)
(* Bounds of the model.                                                    *)
(***************************************************************************)
\* configured queries
MaxQueries == 2
\* Spec: samples the backend returns over the life of the process, and
\* ticker periods
MaxSamples == 2
MaxClock == 1
\* SpecSched: the same, for the claims about the scheduler
SchedSamples == 1
SchedClock == 2

(***************************************************************************)
(* QueryType and its constants.                                            *)
(***************************************************************************)
Gauge == "gauge"
Counter == "counter"
Histogram == "histogram"
Set == "set"
Milliseconds == "milliseconds"

NameLabel == "__name__"

\* unicode.IsSpace, restricted to the characters the inputs use
IsSpace(c) == c \in {" ", "\t"}

RECURSIVE TrimLeft(_)
TrimLeft(s) ==
    IF s # <<>> /\ IsSpace(Head(s)) THEN TrimLeft(Tail(s)) ELSE s

RECURSIVE TrimRight(_)
TrimRight(s) ==
    IF s # <<>> /\ IsSpace(s[Len(s)])
    THEN TrimRight(SubSeq(s, 1, Len(s) - 1))
    ELSE s

TrimSpace(s) == TrimRight(TrimLeft(s))

\* fmt.Sprintf("%s:%s", label, val)
Sprintf(label, val) == <<label>> \o <<":">> \o val

(***************************************************************************)
(* Inputs: the operator's configuration, the backend's answers, the push   *)
(* client's answers.                                                       *)
(***************************************************************************)
\* one entry per type string an operator may write, with names that are
\* padded, empty and plain
Catalogue ==
    << [type |-> "gauge",        name |-> <<" ", "r", " ">>, query |-> <<"up">>],
       [type |-> "counter",      name |-> <<>>,              query |-> <<"job", ":", "up">>],
       [type |-> "histogram",    name |-> <<"r">>,           query |-> <<"up">>],
       [type |-> "milliseconds", name |-> <<"r">>,           query |-> <<"job", ":", "up">>],
       [type |-> "set",          name |-> <<"r">>,           query |-> <<"up">>],
       [type |-> "bogus",        name |-> <<"r">>,           query |-> <<"up">>] >>

Min(S) == CHOOSE x \in S : \A y \in S : x <= y

\* the configurations: up to MaxQueries entries that follow each other in
\* the catalogue, the first following the last
Configs ==
    { [i \in 1 .. n |-> Catalogue[((first + i - 2) % Len(Catalogue)) + 1]] :
        first \in 1 .. Len(Catalogue), n \in 0 .. MaxQueries }

\* model.Sample: Metric is a label map, Value is in tenths (25 is 2.5)
NoLabels == [l \in {} |-> <<>>]
Samples ==
    { [Metric |-> NoLabels, Value |-> 420],
      [Metric |-> [__name__ |-> <<" ", "up", " ">>, instance |-> <<"a", ":", "9090">>, job |-> <<"n">>],
       Value |-> -15],
      [Metric |-> [__name__ |-> <<" ", "\t">>, job |-> <<"n">>], Value |-> 10] }

RECURSIVE SeqsUpTo(_, _)
SeqsUpTo(S, n) ==
    IF n = 0 THEN { <<>> }
    ELSE LET shorter == SeqsUpTo(S, n - 1)
         IN  shorter \cup { Append(v, x) : v \in shorter, x \in S }

\* model.Vector values the backend may return
Vectors(n) == SeqsUpTo(Samples, n)

BackendErrors == { "ECONNREFUSED" }
PushErrors == { "EPIPE" }

\* error values of runQuery
Nil == "nil"
Running == "(running)"
ErrInvalidName == "invalid metric name"
ErrSet == "cannot handle query type 'set' (yet)"
ErrUnknownType == "unknown query type"

(***************************************************************************)
(* Sample transformation: the range over sample.Metric.  Go ranges over a  *)
(* map in an unspecified order, so the order is an input.                  *)
(***************************************************************************)
\* the orders in which `range sample.Metric` may visit the labels
Orders(metric) ==
    LET keys == DOMAIN metric
        n == Cardinality(keys)
    IN  { o \in [1 .. n -> keys] : \A i, j \in 1 .. n : o[i] = o[j] => i = j }

\* LabelStep with the default branch taken for the name label too
LabelStepTagsName(acc, label, val) ==
    IF label = NameLabel
    THEN [acc EXCEPT !.name = val, !.tags = Append(@, Sprintf(label, val))]
    ELSE [acc EXCEPT !.tags = Append(@, Sprintf(label, val))]

\* LabelStep keeping the query's name when the name label is blank
LabelStepFallback(acc, label, val) ==
    IF label = NameLabel
    THEN IF TrimSpace(val) = <<>> THEN acc ELSE [acc EXCEPT !.name = val]
    ELSE [acc EXCEPT !.tags = Append(@, Sprintf(label, val))]

\* LabelStep starting the tags afresh at the name label
LabelStepResetsTags(acc, label, val) ==
    IF label = NameLabel
    THEN [acc EXCEPT !.name = val, !.tags = <<>>]
    ELSE [acc EXCEPT !.tags = Append(@, Sprintf(label, val))]

\* one iteration of the range loop: the switch on label
LabelStep(acc, label, val) ==
    IF label = NameLabel
    THEN [acc EXCEPT !.name = val]
    ELSE [acc EXCEPT !.tags = Append(@, Sprintf(label, val))]

RECURSIVE RangeLabels(_, _, _)
RangeLabels(acc, metric, order) ==
    IF order = <<>> THEN acc
    ELSE RangeLabels(LabelStep(acc, Head(order), metric[Head(order)]), metric, Tail(order))

\* name and tags of a sample, before the name is trimmed
Transform(query, metric, order) ==
    RangeLabels([name |-> query.Name, tags |-> <<>>], metric, order)

\* ResolvedName without the call of strings.TrimSpace
ResolvedNameUntrimmed(query, metric, order) == Transform(query, metric, order).name

\* name = strings.TrimSpace(name)
ResolvedName(query, metric, order) == TrimSpace(Transform(query, metric, order).name)

(***************************************************************************)
(* Type dispatch: the switch on query.Type.                                *)
(***************************************************************************)
\* PushTypes with a case for Set that pushes
PushTypesWithSet == { Gauge, Counter, Histogram, Milliseconds, Set }

\* the types whose case of the switch makes a statsd call
PushTypes == { Gauge, Counter, Histogram, Milliseconds }

\* the statsd.Client method a type is pushed with
PushOp(type) ==
    CASE type = Gauge -> "Gauge"
      [] type = Counter -> "Count"
      [] type = Histogram -> "Histogram"
      [] type = Milliseconds -> "TimeInMilliseconds"
      [] OTHER -> "none"

\* the metric_type label given to postPushedMetric
MetricTypeLabel(type) ==
    CASE type = Gauge -> "gauge"
      [] type = Counter -> "counter"
      [] type = Histogram -> "histogram"
      [] type = Milliseconds -> "milliseconds"
      [] OTHER -> "none"

\* int64(x) truncates toward zero
Int64(tenths) == IF tenths >= 0 THEN tenths \div 10 ELSE -((-tenths) \div 10)

\* the value argument: float64(sample.Value), or int64(sample.Value) for Count
PushValue(type, tenths) ==
    IF type = Counter
    THEN [kind |-> "int64", v |-> Int64(tenths)]
    ELSE [kind |-> "float64", v |-> tenths]

\* the error a query of a type without push call is rejected with
RejectError(type) == IF type = Set THEN ErrSet ELSE ErrUnknownType

\* CounterVec.WithLabelValues(key).Inc()
Inc(counter, key) == counter (+) SetToBag({key})

(***************************************************************************)
(* Loading the queries.                                                    *)
(***************************************************************************)
\* yaml.Unmarshal(queryFile, &queries): every entry becomes a Query, its
\* type field taken as written (QueryType is a string type)
Unmarshal(entries) ==
    [i \in 1 .. Len(entries) |->
        [Type |-> entries[i].type, Name |-> entries[i].name, Query |-> entries[i].query]]

\* the -query flag value an operator writes for an entry: type:name:query
FlagValue(entry) == <<entry.type, ":">> \o entry.name \o <<":">> \o entry.query

IndexOfColon(s) == Min({ i \in 1 .. Len(s) : s[i] = ":" })

\* strings.SplitN(value, ":", n)
RECURSIVE SplitN(_, _)
SplitN(s, n) ==
    IF n <= 1 \/ \A i \in 1 .. Len(s) : s[i] # ":"
    THEN <<s>>
    ELSE <<SubSeq(s, 1, IndexOfColon(s) - 1)>>
         \o SplitN(SubSeq(s, IndexOfColon(s) + 1, Len(s)), n - 1)

\* (flags *Queries).Set(value): the list after the call and whether it
\* returned nil; an error makes flag.Parse exit the process
QueriesSet(flags, value) ==
    LET parts == SplitN(value, 3)
        metric_type == parts[1]
    IN  IF Len(parts) < 3
        THEN [queries |-> flags, ok |-> FALSE]
        ELSE IF metric_type \in { <<"gauge">>, <<"counter">>, <<"histogram">>, <<"milliseconds">> }
        THEN [queries |-> Append(flags,
                  [Type |-> CASE metric_type = <<"gauge">> -> Gauge
                              [] metric_type = <<"counter">> -> Counter
                              [] metric_type = <<"histogram">> -> Histogram
                              [] metric_type = <<"milliseconds">> -> Milliseconds,
                   Name |-> parts[2], Query |-> parts[3]]),
              ok |-> TRUE]
        ELSE [queries |-> flags, ok |-> FALSE]

\* flag.Parse(): Set is called for every -query flag, in order, until one fails
RECURSIVE FlagParse(_, _)
FlagParse(acc, values) ==
    IF values = <<>> \/ ~acc.ok THEN acc
    ELSE FlagParse(QueriesSet(acc.queries, Head(values)), Tail(values))

(***************************************************************************)
(* The state after the process has started and before main() has run.      *)
(***************************************************************************)
EmptyCounter == EmptyBag

Started ==
    /\ loader \in { "yaml", "flags" }
    /\ raw \in Configs
    /\ queries = <<>>
    /\ pc = "start"
    /\ clock = 0
    /\ tickerC = <<>>
    /\ now = 0
    /\ qi = 0
    /\ results = <<>>
    /\ returned = 0
    /\ si = 0
    /\ pushes = <<>>
    /\ calls = <<>>
    /\ ret = [query |-> 0, err |-> Nil, at |-> 0]
    /\ rounds = 0
    /\ mark = [pushedMetrics |-> EmptyCounter, failedQueries |-> EmptyCounter,
               failedPushedMetrics |-> EmptyCounter]
    /\ pushCalls = 0
    /\ pushedMetrics = EmptyCounter
    /\ failedQueries = EmptyCounter
    /\ failedPushedMetrics = EmptyCounter

Init == Started /\ limits = [clock |-> MaxClock, samples |-> MaxSamples]

InitSched == Started /\ limits = [clock |-> SchedClock, samples |-> SchedSamples]

\* main() of the YAML revision, up to and including startQuerying
MainYaml ==
    /\ pc = "start"
    /\ loader = "yaml"
    /\ queries' = Unmarshal(raw)
    /\ pc' = "idle"
    /\ UNCHANGED <<loader, raw, limits, clock, tickerC, now, qi, results, returned, si, pushes,
                   calls, ret, rounds, mark, pushCalls,
                   pushedMetrics, failedQueries, failedPushedMetrics>>

\* main() of the flag revision, up to and including start_querying
MainFlags ==
    /\ pc = "start"
    /\ loader = "flags"
    /\ LET parsed == FlagParse([queries |-> <<>>, ok |-> TRUE],
                               [i \in 1 .. Len(raw) |-> FlagValue(raw[i])])
       IN  /\ queries' = parsed.queries
           /\ pc' = IF parsed.ok THEN "idle" ELSE "fatal"
    /\ UNCHANGED <<loader, raw, limits, clock, tickerC, now, qi, results, returned, si, pushes,
                   calls, ret, rounds, mark, pushCalls,
                   pushedMetrics, failedQueries, failedPushedMetrics>>

\* the process is alive and its ticker exists
Alive == pc \in { "idle", "query", "series" }

\* TimerFire with a channel that keeps every value until it is received
TimerFireQueued ==
    /\ Alive
    /\ clock < limits.clock
    /\ clock' = clock + 1
    /\ tickerC' = Append(tickerC, clock + 1)
    /\ UNCHANGED <<loader, raw, limits, queries, pc, now, qi, results, returned, si, pushes,
                   calls, ret, rounds, mark, pushCalls,
                   pushedMetrics, failedQueries, failedPushedMetrics>>

(***************************************************************************)
(* The ticker: every period the runtime sends the time on ticker.C without *)
(* blocking; the channel holds one value, and a send to a full channel is  *)
(* dropped.                                                                *)
(***************************************************************************)
TimerFire ==
    /\ Alive
    /\ clock < limits.clock
    /\ clock' = clock + 1
    /\ tickerC' = IF tickerC = <<>> THEN <<clock + 1>> ELSE tickerC
    /\ UNCHANGED <<loader, raw, limits, queries, pc, now, qi, results, returned, si, pushes,
                   calls, ret, rounds, mark, pushCalls,
                   pushedMetrics, failedQueries, failedPushedMetrics>>

(***************************************************************************)
(* startQuerying: the goroutine's loops.                                   *)
(***************************************************************************)
\* ReceiveTick with the rounds started as the values arrive, not one after
\* the other
ReceiveTickAnytime ==
    /\ pc \in { "idle", "query" }
    /\ tickerC # <<>>
    /\ now' = Head(tickerC)
    /\ tickerC' = <<>>
    /\ calls' = <<>>
    /\ rounds' = rounds + 1
    /\ IF queries = <<>>
       THEN pc' = "idle" /\ qi' = 0
       ELSE pc' = "query" /\ qi' = 1
    /\ UNCHANGED <<loader, raw, limits, queries, clock, results, returned, si, pushes, ret,
                   mark, pushCalls, pushedMetrics, failedQueries, failedPushedMetrics>>

\* `for now := range ticker.C` receives, and the inner loop starts
ReceiveTick ==
    /\ pc = "idle"
    /\ tickerC # <<>>
    /\ now' = Head(tickerC)
    /\ tickerC' = <<>>
    /\ calls' = <<>>
    /\ rounds' = rounds + 1
    /\ IF queries = <<>>
       THEN pc' = "idle" /\ qi' = 0
       ELSE pc' = "query" /\ qi' = 1
    /\ UNCHANGED <<loader, raw, limits, queries, clock, results, returned, si, pushes, ret,
                   mark, pushCalls, pushedMetrics, failedQueries, failedPushedMetrics>>

\* Return with the inner loop of startQuerying left at the first error
ReturnBreaks(e) ==
    /\ ret' = [query |-> qi, err |-> e, at |-> si]
    /\ si' = 0
    /\ IF qi < Len(queries) /\ e = Nil
       THEN pc' = "query" /\ qi' = qi + 1
       ELSE pc' = "idle" /\ qi' = 0

\* runQuery returns e at sample si (0: before the loop): startQuerying
\* drops the value and goes on with the next query, or with the next
\* receive after the last one
Return(e) ==
    /\ ret' = [query |-> qi, err |-> e, at |-> si]
    /\ si' = 0
    /\ IF qi < Len(queries)
       THEN pc' = "query" /\ qi' = qi + 1
       ELSE pc' = "idle" /\ qi' = 0

\* CallBackend asking for the value at the time of the call
CallBackendAtClock(answer) ==
    /\ pc = "query"
    /\ calls' = Append(calls, [index |-> qi, query |-> queries[qi].Query, when |-> clock,
                               answer |-> answer])
    /\ pushes' = <<>>
    /\ mark' = [pushedMetrics |-> pushedMetrics, failedQueries |-> failedQueries,
                failedPushedMetrics |-> failedPushedMetrics]
    /\ UNCHANGED <<rounds, pushCalls>>

\* the call queryAPI.Query(context.Background(), query.Query, when), which
\* answers an error, a vector or a value of another type
CallBackend(answer) ==
    /\ pc = "query"
    /\ calls' = Append(calls, [index |-> qi, query |-> queries[qi].Query, when |-> now,
                               answer |-> answer])
    /\ pushes' = <<>>
    /\ mark' = [pushedMetrics |-> pushedMetrics, failedQueries |-> failedQueries,
                failedPushedMetrics |-> failedPushedMetrics]
    /\ UNCHANGED <<rounds, pushCalls>>

\* CountFailedQuery labelling the counter with the query's name
CountFailedQueryByName(query) == Inc(failedQueries, query.Name)

\* failedQueries.WithLabelValues(query.Query).Inc()
CountFailedQuery(query) == Inc(failedQueries, query.Query)

\* runQuery, the backend call failing
QueryFails ==
    /\ CallBackend("error")
    /\ \E e \in BackendErrors :
          /\ failedQueries' = CountFailedQuery(queries[qi])
          /\ results' = <<>>
          /\ Return(e)
    /\ UNCHANGED <<loader, raw, limits, queries, clock, tickerC, now, returned,
                   pushedMetrics, failedPushedMetrics>>

\* runQuery, the backend returning a vector: the range loop starts, or is
\* over at once when the vector is empty
QueryReturnsVector ==
    /\ CallBackend("vector")
    /\ \E v \in Vectors(limits.samples - returned) :
          /\ returned' = returned + Len(v)
          /\ results' = v
          /\ IF v = <<>>
             THEN Return(Nil)
             ELSE /\ si' = 1
                  /\ pc' = "series"
                  /\ ret' = [query |-> qi, err |-> Running, at |-> 0]
                  /\ qi' = qi
    /\ UNCHANGED <<loader, raw, limits, queries, clock, tickerC, now,
                   pushedMetrics, failedQueries, failedPushedMetrics>>

\* runQuery, the backend returning a scalar, a string or a matrix: the type
\* assertion results.(model.Vector) panics in the goroutine
QueryReturnsNoVector ==
    /\ CallBackend("scalar")
    /\ pc' = "crashed"
    /\ results' = <<>>
    /\ UNCHANGED <<loader, raw, limits, queries, clock, tickerC, now, qi, returned, si, ret,
                   pushedMetrics, failedQueries, failedPushedMetrics>>

\* the sample the range loop of runQuery is at, and its query
Sample == results[si]
Query == queries[qi]

\* NextSample with the return inside the loop: the first sample is the last
NextSampleReturnsInLoop == Return(Nil)

\* the range loop goes on with the next sample, or is over: return err (nil)
NextSample ==
    IF si < Len(results)
    THEN /\ si' = si + 1
         /\ UNCHANGED <<pc, qi, ret>>
    ELSE Return(Nil)

\* one iteration of the range loop, the resolved name being empty
SeriesInvalidName ==
    /\ pc = "series"
    /\ \E order \in Orders(Sample.Metric) :
          /\ ResolvedName(Query, Sample.Metric, order) = <<>>
          /\ failedPushedMetrics' = Inc(failedPushedMetrics, "invalid-name")
          /\ Return(ErrInvalidName)
    /\ UNCHANGED <<loader, raw, limits, queries, clock, tickerC, now, results, returned,
                   pushes, calls, rounds, mark, pushCalls, pushedMetrics, failedQueries>>

\* postPushedMetric(metricType)
PostPushedMetric(name, metricType) == Inc(pushedMetrics, <<name, name, metricType>>)

\* CountPush calling postPushedMetric only when the statsd call succeeded
CountPushIfSent(name, metricType, err) ==
    IF err = Nil THEN PostPushedMetric(name, metricType) ELSE pushedMetrics

\* the line after each statsd call: postPushedMetric, whatever err is
CountPush(name, metricType, err) == PostPushedMetric(name, metricType)

\* AfterPush testing an err that the switch shadowed: it is always nil
AfterPushShadowed(err) ==
    /\ UNCHANGED failedPushedMetrics
    /\ NextSample

\* AfterPush counting the failure and going on with the next sample
AfterPushFailSoft(err) ==
    /\ failedPushedMetrics' =
          IF err # Nil THEN Inc(failedPushedMetrics, "failed-push") ELSE failedPushedMetrics
    /\ NextSample

\* AfterPush counting a failed push under two reasons
AfterPushCountsTwice(err) ==
    IF err # Nil
    THEN /\ failedPushedMetrics' =
               Inc(Inc(failedPushedMetrics, "failed-push"), "invalid-name")
         /\ Return(err)
    ELSE /\ UNCHANGED failedPushedMetrics
         /\ NextSample

\* what follows the switch: if err != nil { count and return err }
AfterPush(err) ==
    IF err # Nil
    THEN /\ failedPushedMetrics' = Inc(failedPushedMetrics, "failed-push")
         /\ Return(err)
    ELSE /\ UNCHANGED failedPushedMetrics
         /\ NextSample

\* one iteration of the range loop for a query of a pushed type: the statsd
\* call, which answers err, then postPushedMetric, then the check of err
SeriesPush ==
    /\ pc = "series"
    /\ Query.Type \in PushTypes
    /\ \E order \in Orders(Sample.Metric), err \in { Nil } \cup PushErrors :
          LET name == ResolvedName(Query, Sample.Metric, order)
              tags == Transform(Query, Sample.Metric, order).tags
          IN  /\ name # <<>>
              /\ pushes' = Append(pushes,
                     [op |-> PushOp(Query.Type), name |-> name,
                      value |-> PushValue(Query.Type, Sample.Value),
                      tags |-> tags, rate |-> 1, err |-> err, series |-> si])
              /\ pushCalls' = pushCalls + 1
              /\ pushedMetrics' = CountPush(name, MetricTypeLabel(Query.Type), err)
              /\ AfterPush(err)
    /\ UNCHANGED <<loader, raw, limits, queries, clock, tickerC, now, results, returned, calls,
                   rounds, mark, failedQueries>>

\* one iteration of the range loop for a query of type Set or of a type
\* that is none of the constants
SeriesRejected ==
    /\ pc = "series"
    /\ Query.Type \notin PushTypes
    /\ \E order \in Orders(Sample.Metric) :
          /\ ResolvedName(Query, Sample.Metric, order) # <<>>
          /\ Return(RejectError(Query.Type))
    /\ UNCHANGED <<loader, raw, limits, queries, clock, tickerC, now, results, returned,
                   pushes, calls, rounds, mark, pushCalls,
                   pushedMetrics, failedQueries, failedPushedMetrics>>

Next ==
    \/ MainYaml
    \/ MainFlags
    \/ TimerFire
    \/ ReceiveTick
    \/ QueryFails
    \/ QueryReturnsVector
    \/ QueryReturnsNoVector
    \/ SeriesInvalidName
    \/ SeriesPush
    \/ SeriesRejected

Spec == Init /\ [][Next]_vars

SpecSched == InitSched /\ [][Next]_vars

(***************************************************************************)
(* Vocabulary of the claims.                                               *)
(***************************************************************************)
\* the step is one iteration of runQuery's range loop
Iterates == pc = "series" /\ (si' # si \/ ret' # ret)

\* the step issues a statsd call
Pushed == pc = "series" /\ Len(pushes') = Len(pushes) + 1

\* the step calls the backend, and the call returns
Called == pc = "query" /\ Len(calls') = Len(calls) + 1 /\ pc' # "crashed"

LastPush == pushes[Len(pushes)]

\* the name the labels of the current sample resolve to
CurName ==
    TrimSpace(IF NameLabel \in DOMAIN Sample.Metric
              THEN Sample.Metric[NameLabel]
              ELSE Query.Name)

\* the push operation the claims give for a declared type
DeclaredOp ==
    [gauge |-> "Gauge", counter |-> "Count", histogram |-> "Histogram",
     milliseconds |-> "TimeInMilliseconds"]

\* where startQuerying is after the run of query qi has returned
MovesOn ==
    IF qi < Len(queries)
    THEN pc' = "query" /\ qi' = qi + 1
    ELSE pc' = "idle"

(***************************************************************************)
(* C1: for every series whose trimmed resolved name is non-empty, the      *)
(* iteration of runQuery that processes it issues exactly one push call,   *)
(* and that call is the operation of the query's declared type (Gauge ->   *)
(* Gauge, Counter -> Count, Histogram -> Histogram, Milliseconds ->        *)
(* TimeInMilliseconds).  The YAML revision hands queries of type set, or   *)
(* of any other string, to the runner (C4), which pushes nothing for them. *)
(***************************************************************************)
C1_ExactlyOneMatchingPush ==
    [][ (Iterates /\ CurName # <<>>)
        => /\ Pushed
           /\ LastPush'.series = si
           /\ Query.Type \in DOMAIN DeclaredOp
           /\ LastPush'.op = DeclaredOp[Query.Type] ]_vars

(***************************************************************************)
(* C2: for every series whose resolved name is empty or only whitespace,   *)
(* the iteration that processes it makes no push call, adds exactly one to *)
(* failed_pushed_metrics_total{reason="invalid-name"}, leaves the other    *)
(* counters as they are, and runQuery returns the invalid-name error.      *)
(***************************************************************************)
C2_InvalidNameCounted ==
    [][ (Iterates /\ CurName = <<>>)
        => /\ pushes' = pushes
           /\ failedPushedMetrics' = failedPushedMetrics (+) SetToBag({"invalid-name"})
           /\ pushedMetrics' = pushedMetrics
           /\ failedQueries' = failedQueries
           /\ ret' = [query |-> qi, err |-> ErrInvalidName, at |-> si] ]_vars

\* a run has returned the invalid-name error for a sample whose name label
\* is blank, having pushed nothing for it
C2_Witness ==
    /\ ret.err = ErrInvalidName
    /\ ret.at >= 1
    /\ NameLabel \in DOMAIN results[ret.at].Metric
    /\ \A k \in 1 .. Len(pushes) : pushes[k].series # ret.at
    /\ CopiesIn("invalid-name", failedPushedMetrics) >= 1

(***************************************************************************)
(* C3: when the backend call of a query fails, failed_queries_total        *)
(* labelled with the query's expression goes up by exactly one, the run    *)
(* pushes nothing and changes no other counter, the error is returned, and *)
(* startQuerying goes on with the next query of the tick.                  *)
(***************************************************************************)
C3_BackendFailure ==
    [][ (Called /\ ret'.err \in BackendErrors)
        => /\ failedQueries' = failedQueries (+) SetToBag({Query.Query})
           /\ pushes' = <<>>
           /\ pushedMetrics' = pushedMetrics
           /\ failedPushedMetrics' = failedPushedMetrics
           /\ ret'.query = qi
           /\ MovesOn ]_vars

\* the first query of a tick has failed and the second has run to its end
C3_Witness ==
    /\ Len(calls) = 2
    /\ ret.query = 2
    /\ ret.err = Nil
    /\ Len(pushes) >= 1
    /\ BagCardinality(failedQueries) = 1

(***************************************************************************)
(* C4: a query configured with type set (or with a type that is none of    *)
(* the known ones) is rejected when the configuration is loaded: the query *)
(* list of a running scheduler holds only queries of a pushed type.        *)
(***************************************************************************)
C4_SetNeverReachesRunner ==
    Alive => \A i \in 1 .. Len(queries) : queries[i].Type \in PushTypes

(***************************************************************************)
(* C5: pushed_metrics_total{name, name, type} goes up by one exactly when  *)
(* a push call succeeded; a push call that returns an error leaves it as   *)
(* it is.                                                                  *)
(***************************************************************************)
C5_CountedIffPushSucceeded ==
    [][ /\ (pushedMetrics' # pushedMetrics) <=> (Pushed /\ LastPush'.err = Nil)
        /\ (Pushed /\ LastPush'.err = Nil)
           => pushedMetrics' =
                 pushedMetrics (+) SetToBag({<<CurName, CurName, Query.Type>>}) ]_vars

(***************************************************************************)
(* C6: when a push call returns an error, runQuery adds exactly one to     *)
(* failed_pushed_metrics_total{reason="failed-push"} and returns that same *)
(* error to its caller.                                                    *)
(***************************************************************************)
C6_FailedPushCountedAndReturned ==
    [][ (Pushed /\ LastPush'.err # Nil)
        => /\ failedPushedMetrics' = failedPushedMetrics (+) SetToBag({"failed-push"})
           /\ ret' = [query |-> qi, err |-> LastPush'.err, at |-> si] ]_vars

\* a run has returned the error of its last push call and counted it
C6_Witness ==
    /\ pushes # <<>>
    /\ LastPush.err \in PushErrors
    /\ ret.err = LastPush.err
    /\ CopiesIn("failed-push", failedPushedMetrics) = 1

(***************************************************************************)
(* C7: within one run the samples are processed in the order the backend   *)
(* returned them, and the first error (invalid name, push error, set or    *)
(* unknown type) ends the run: nothing is pushed or counted for a sample   *)
(* after the failing one, and that first error is the value returned.      *)
(***************************************************************************)
\* the error the iteration on the current sample ends with, Nil if none
IterationError ==
    IF CurName = <<>> THEN ErrInvalidName
    ELSE IF Query.Type \notin PushTypes THEN RejectError(Query.Type)
    ELSE LastPush'.err

\* the pushes of a run are for its samples in order, none for a sample
\* after the one the run returned at, and only the last one may have failed
RunLogInOrder ==
    \A k \in 1 .. Len(pushes) :
        /\ pushes[k].series = k
        /\ k <= (IF pc = "series" THEN si - 1 ELSE ret.at)
        /\ pushes[k].err # Nil => (pc # "series" /\ k = ret.at /\ ret.err = pushes[k].err)

C7_FirstErrorAborts ==
    /\ []RunLogInOrder
    /\ [][ Iterates
           => /\ Pushed => LastPush'.series = si
              /\ IF IterationError # Nil
                 THEN /\ pc' # "series"
                      /\ ret' = [query |-> qi, err |-> IterationError, at |-> si]
                      /\ results' = results
                 ELSE IF si < Len(results)
                      THEN pc' = "series" /\ si' = si + 1 /\ ret' = ret /\ qi' = qi
                      ELSE ret' = [query |-> qi, err |-> Nil, at |-> si] ]_vars

\* a run over two samples has ended with an error at the first one
C7_Witness ==
    /\ pc # "series"
    /\ Len(results) = 2
    /\ ret.at = 1
    /\ ret.err \notin { Nil, Running }
    /\ Len(pushes) <= 1

(***************************************************************************)
(* C8: in every tick startQuerying runs each configured query exactly      *)
(* once, one at a time, in configuration order, whatever the earlier       *)
(* queries of the tick returned; an error returned by a query stops        *)
(* neither the tick nor the loop over the ticks.                           *)
(***************************************************************************)
\* the backend calls of the tick so far are those of the first queries of
\* the configuration, one each, in order; a finished tick has run them all
TickLogInOrder ==
    /\ \A k \in 1 .. Len(calls) :
          calls[k].index = k /\ calls[k].query = queries[k].Query
    /\ Len(calls) = (CASE pc = "query" -> qi - 1
                       [] pc \in { "series", "crashed" } -> qi
                       [] pc = "idle" /\ now > 0 -> Len(queries)
                       [] OTHER -> 0)

C8_EveryQueryOncePerTick ==
    /\ []TickLogInOrder
    /\ [][ (pc \in { "query", "series" } /\ ret' # ret /\ ret'.err # Running)
           => ret'.query = qi /\ MovesOn ]_vars

\* the second tick is over, and every run of both ticks returned an error
C8_Witness ==
    /\ pc = "idle"
    /\ now = 2
    /\ Len(calls) = 2
    /\ ret.query = 2
    /\ BagCardinality(failedQueries) = 4

(***************************************************************************)
(* C9: the tags of a push call hold no entry for the label __name__ and    *)
(* exactly one entry "key:value" for every other label of the sample: no   *)
(* label is missing, none is there twice, and there is no other tag.       *)
(***************************************************************************)
C9_TagsAreTheOtherLabels ==
    \A k \in 1 .. Len(pushes) :
        LET metric == results[pushes[k].series].Metric
            tags == pushes[k].tags
            others == DOMAIN metric \ { NameLabel }
        IN  /\ Len(tags) = Cardinality(others)
            /\ \A l \in others :
                  Cardinality({ i \in 1 .. Len(tags) : tags[i] = <<l, ":">> \o metric[l] }) = 1
            /\ \A i \in 1 .. Len(tags) : Head(tags[i]) # NameLabel

\* a sample with a name label and two other labels has been pushed
C9_Witness ==
    \E k \in 1 .. Len(pushes) :
        /\ NameLabel \in DOMAIN results[pushes[k].series].Metric
        /\ Len(pushes[k].tags) = 2

(***************************************************************************)
(* C10: the name of the push call and of the pushed_metrics_total labels   *)
(* is the trimmed value of the label __name__ when the sample has that     *)
(* label, and the trimmed Query.Name otherwise.  A blank __name__ is not   *)
(* replaced by Query.Name: the sample is rejected as invalid-name.  A      *)
(* sample with no labels resolves to the trimmed Query.Name and no tags,   *)
(* and is pushed so when that name is non-empty and the type of the query  *)
(* is a pushed one.                                                        *)
(***************************************************************************)
C10_NameFromLabelOrQuery ==
    [][ /\ Pushed
           => /\ LastPush'.name =
                    TrimSpace(IF NameLabel \in DOMAIN Sample.Metric
                              THEN Sample.Metric[NameLabel]
                              ELSE Query.Name)
              /\ pushedMetrics' = pushedMetrics
                    (+) SetToBag({<<LastPush'.name, LastPush'.name, Query.Type>>})
        /\ ( /\ Iterates
             /\ NameLabel \in DOMAIN Sample.Metric
             /\ TrimSpace(Sample.Metric[NameLabel]) = <<>> )
           => ~Pushed /\ ret'.err = ErrInvalidName
        /\ ( /\ Iterates
             /\ DOMAIN Sample.Metric = {}
             /\ TrimSpace(Query.Name) # <<>>
             /\ Query.Type \in PushTypes )
           => /\ Pushed
              /\ LastPush'.name = TrimSpace(Query.Name)
              /\ LastPush'.tags = <<>>
              /\ ret'.err \in { Nil, Running, LastPush'.err } ]_vars

\* C10 as first stated: a sample with no labels is always pushed under the
\* name of the query with no tags, without an error of runQuery's own; it
\* is not when Query.Name is blank
C10_ZeroLabelsAlwaysPushed ==
    [][ ( /\ Iterates
          /\ DOMAIN Sample.Metric = {}
          /\ Query.Type \in PushTypes )
        => /\ Pushed
           /\ LastPush'.name = TrimSpace(Query.Name)
           /\ LastPush'.tags = <<>>
           /\ ret'.err \in { Nil, Running, LastPush'.err } ]_vars

\* one run has pushed a sample without labels under the trimmed name of the
\* query and a sample with a name label under the trimmed label value
C10_Witness ==
    /\ Len(pushes) = 2
    /\ queries[ret.query].Name = <<" ", "r", " ">>
    /\ DOMAIN results[1].Metric = {}
    /\ pushes[1].name = <<"r">>
    /\ pushes[1].tags = <<>>
    /\ pushes[2].name = <<"up">>

(***************************************************************************)
(* Vocabulary of the claims about the scheduler and the counters.          *)
(***************************************************************************)
\* the step ends a run of runQuery by a return
Returns ==
    /\ pc \in { "query", "series" }
    /\ pc' \in { "query", "idle" }
    /\ clock' = clock

\* the step does work of a tick: a backend call, a statsd call or a count
Works ==
    \/ Len(calls') > Len(calls)
    \/ pushCalls' # pushCalls
    \/ pushedMetrics' # pushedMetrics
    \/ failedQueries' # failedQueries
    \/ failedPushedMetrics' # failedPushedMetrics

\* failed_queries_total plus failed_pushed_metrics_total, over all labels
Failures(counters) ==
    BagCardinality(counters.failedQueries) + BagCardinality(counters.failedPushedMetrics)

\* the three counters of the state
Counters ==
    [pushedMetrics |-> pushedMetrics, failedQueries |-> failedQueries,
     failedPushedMetrics |-> failedPushedMetrics]

(***************************************************************************)
(* C11: ticks never run concurrently.  A tick is received only while the   *)
(* goroutine is waiting, after the tick before it has called the backend   *)
(* for every configured query; and every backend call, statsd call and     *)
(* counter increment is a step of the one run in progress, during which    *)
(* the tick does not change, however often the timer fires meanwhile.      *)
(***************************************************************************)
C11_TicksNeverOverlap ==
    [][ /\ rounds' # rounds
           => /\ pc = "idle"
              /\ rounds' = rounds + 1
              /\ rounds > 0 => Len(calls) = Len(queries)
              /\ pushCalls' = pushCalls
              /\ Counters' = Counters
        /\ (Works /\ rounds' = rounds)
           => /\ pc \in { "query", "series" }
              /\ now' = now
              /\ qi' \in { qi, qi + 1, 0 }
              /\ pc = "series" => Len(calls') = Len(calls) ]_vars

\* the timer has fired again while a run of the first tick is in its loop
C11_Witness ==
    /\ pc = "series"
    /\ now = 1
    /\ rounds = 1
    /\ tickerC = <<2>>

(***************************************************************************)
(* C12: no tick is skipped, the number of rounds equals the number of      *)
(* timer fires: every fire has either started its round or is waiting in   *)
(* the channel for the goroutine.                                          *)
(***************************************************************************)
C12_NoTickSkipped == rounds + Len(tickerC) = clock

(***************************************************************************)
(* C12 as amended: the channel of the ticker holds one value, so a fire    *)
(* that finds an earlier one still waiting is dropped.  At most one fire   *)
(* waits, there are never more rounds than fires, a fire that finds the    *)
(* channel empty leaves its time there, and each round is started by the   *)
(* waiting value, which is later than the tick of the round before.        *)
(***************************************************************************)
C12_AtMostOneTickWaits ==
    /\ [](/\ Len(tickerC) <= 1
          /\ rounds + Len(tickerC) <= clock
          /\ tickerC # <<>> => (now < tickerC[1] /\ tickerC[1] <= clock))
    /\ [][ /\ clock' # clock
               => tickerC' = (IF tickerC = <<>> THEN <<clock'>> ELSE tickerC)
           /\ rounds' # rounds
               => /\ tickerC # <<>>
                  /\ now' = tickerC[1]
                  /\ tickerC' = <<>> ]_vars

\* two fires, one round, nothing waiting: one fire was dropped
C12_Witness ==
    /\ clock = 2
    /\ rounds = 1
    /\ tickerC = <<>>
    /\ pc = "idle"

(***************************************************************************)
(* C13: every error runQuery returns is counted: when a run returns a      *)
(* non-nil error, failed_queries_total or failed_pushed_metrics_total is   *)
(* higher than the run found it.  The errors of type set and of an unknown *)
(* type are returned without a count; the YAML revision lets both types    *)
(* reach the runner (C4).                                                  *)
(***************************************************************************)
C13_EveryErrorCounted ==
    [][ (Returns /\ ret'.err # Nil) => Failures(Counters') > Failures(mark') ]_vars

(***************************************************************************)
(* C14: a tick is a function of its inputs.  The one choice runQuery does  *)
(* not take from its inputs is the order in which Go ranges over the       *)
(* labels of a sample; whichever order an iteration takes, its push call   *)
(* (operation, name, value, tags as a set) and what it adds to the three   *)
(* counters are those any one fixed order gives for the same query, sample *)
(* and answer of the push client.                                          *)
(***************************************************************************)
\* one fixed order of the labels of a metric
FixedOrder(metric) == CHOOSE order \in Orders(metric) : TRUE

TagSet(tags) == { tags[k] : k \in 1 .. Len(tags) }

C14_TickIsAFunctionOfItsInputs ==
    [][ Iterates
        => LET order == FixedOrder(Sample.Metric)
               name == ResolvedName(Query, Sample.Metric, order)
               tags == Transform(Query, Sample.Metric, order).tags
               sent == name # <<>> /\ Query.Type \in DOMAIN DeclaredOp
           IN  /\ Pushed <=> sent
               /\ ~sent => pushes' = pushes /\ pushCalls' = pushCalls
               /\ sent => /\ LastPush'.op = DeclaredOp[Query.Type]
                          /\ LastPush'.name = name
                          /\ LastPush'.value = PushValue(Query.Type, Sample.Value)
                          /\ TagSet(LastPush'.tags) = TagSet(tags)
                          /\ Len(LastPush'.tags) = Len(tags)
               /\ pushedMetrics' =
                     (IF sent
                      THEN pushedMetrics (+) SetToBag({<<name, name, Query.Type>>})
                      ELSE pushedMetrics)
               /\ failedPushedMetrics' =
                     (CASE name = <<>> ->
                               failedPushedMetrics (+) SetToBag({"invalid-name"})
                        [] sent /\ LastPush'.err # Nil ->
                               failedPushedMetrics (+) SetToBag({"failed-push"})
                        [] OTHER -> failedPushedMetrics)
               /\ failedQueries' = failedQueries ]_vars

\* the first sample of a run was pushed with its two tags in another order
\* than the fixed one
C14_Witness ==
    /\ pc = "series"
    /\ si = 2
    /\ Len(pushes) = 1
    /\ Len(pushes[1].tags) = 2
    /\ pushes[1].tags # Transform(Query, results[1].Metric, FixedOrder(results[1].Metric)).tags

\* the backend call of the run in progress, or of the last run
LastCall == calls[Len(calls)]

(***************************************************************************)
(* C15: a run of a query whose type is set, or any string other than the   *)
(* four pushed types, never makes a statsd call, never adds to             *)
(* pushed_metrics_total, and is rejected: it returns an error.             *)
(***************************************************************************)
C15_UnpushedTypeAlwaysRejected ==
    [][ (pc \in { "query", "series" } /\ Query.Type \notin DOMAIN DeclaredOp)
        => /\ pushCalls' = pushCalls
           /\ Len(pushes') <= Len(pushes)
           /\ pushedMetrics' = pushedMetrics
           /\ Returns => ret'.err # Nil ]_vars

(***************************************************************************)
(* C15 as amended: such a run never makes a statsd call and never adds to  *)
(* pushed_metrics_total; it returns an error when the backend call fails   *)
(* and at the first series when the backend returns one or more (the       *)
(* invalid-name error if that series has a blank name, else the error of   *)
(* the type); when the backend returns no series it returns nil.           *)
(***************************************************************************)
C15_UnpushedTypeRejectedPerSeries ==
    [][ (pc \in { "query", "series" } /\ Query.Type \notin DOMAIN DeclaredOp)
        => /\ pushCalls' = pushCalls
           /\ Len(pushes') <= Len(pushes)
           /\ pushedMetrics' = pushedMetrics
           /\ Returns
              => /\ ret'.query = qi
                 /\ ret'.err =
                      (CASE LastCall'.answer = "error" -> CHOOSE e \in BackendErrors : TRUE
                         [] results' = <<>> -> Nil
                         [] CurName = <<>> -> ErrInvalidName
                         [] Query.Type = Set -> ErrSet
                         [] OTHER -> ErrUnknownType)
                 /\ results' # <<>> => ret'.at = 1 ]_vars

\* a query of type set has run on a vector without series and returned nil
C15_Witness ==
    /\ ret.query > 0
    /\ queries[ret.query].Type = Set
    /\ ret.err = Nil
    /\ calls # <<>>
    /\ LastCall.index = ret.query
    /\ LastCall.answer = "vector"

(***************************************************************************)
(* C16: the scheduler never terminates on its own: there is no reachable   *)
(* state in which the loop of startQuerying has exited.  A backend answer  *)
(* that is not a vector makes results.(model.Vector) panic, which ends the *)
(* goroutine and the process.                                              *)
(***************************************************************************)
C16_LoopNeverExits == pc # "crashed"

(***************************************************************************)
(* C17: every backend call of a tick asks for the value at the time the    *)
(* ticker sent for that tick, whatever time it is when the call is made.   *)
(***************************************************************************)
C17_QueriedAtTickTime ==
    /\ [](\A k \in 1 .. Len(calls) : calls[k].when = now)
    /\ [][ /\ rounds' # rounds => (tickerC # <<>> /\ now' = Head(tickerC))
           /\ Len(calls') > Len(calls) => (LastCall'.when = now /\ now' = now) ]_vars

\* both queries of the first tick have been called, the timer having fired
\* a second time since that tick was received
C17_Witness ==
    /\ now = 1
    /\ clock = 2
    /\ tickerC = <<2>>
    /\ Len(calls) = 2
    /\ calls[2].when = 1

C19_AtMostOneFailurePerRun ==
    /\ [](/\ Failures(Counters) <= Failures(mark) + 1
          /\ pc = "series" => Failures(Counters) = Failures(mark))
    /\ [][ /\ Failures(Counters') > Failures(Counters)
               => (Returns /\ ret'.err \notin { Nil, Running })
           /\ pushedMetrics \sqsubseteq pushedMetrics'
           /\ failedQueries \sqsubseteq failedQueries'
           /\ failedPushedMetrics \sqsubseteq failedPushedMetrics' ]_vars

\* a run of the second tick has failed at its push, after a failed run of
\* the first tick
C19_Witness ==
    /\ rounds = 2
    /\ ret.err \in PushErrors
    /\ BagCardinality(failedQueries) >= 1
    /\ CopiesIn("failed-push", failedPushedMetrics) = 1
    /\ Failures(Counters) = Failures(mark) + 1

(***************************************************************************)
(* C20: runQuery returns nil exactly when the backend call succeeded and   *)
(* every series of the result was pushed by a statsd call that succeeded:  *)
(* as many calls as series, no failure counter changed.  A vector without  *)
(* series gives nil, no call and no change of a counter, for every type.   *)
(***************************************************************************)
C20_NilIffAllPushed ==
    [][ Returns
        => /\ ret'.err = Nil
              <=> /\ LastCall'.answer = "vector"
                  /\ Len(pushes') = Len(results')
                  /\ \A k \in 1 .. Len(pushes') :
                         pushes'[k].series = k /\ pushes'[k].err = Nil
                  /\ Failures(Counters') = Failures(mark')
           /\ ret'.err = Nil
              => /\ mark'.pushedMetrics \sqsubseteq pushedMetrics'
                 /\ BagCardinality(pushedMetrics') =
                       BagCardinality(mark'.pushedMetrics) + Len(results')
           /\ (LastCall'.answer = "vector" /\ results' = <<>>)
              => /\ ret'.err = Nil
                 /\ pushes' = <<>>
                 /\ pushCalls' = pushCalls
                 /\ Counters' = mark' ]_vars

\* a run over two series has pushed both and returned nil
C20_Witness ==
    /\ pc # "series"
    /\ ret.err = Nil
    /\ Len(results) = 2
    /\ Len(pushes) = 2
    /\ ret.at = 2

====
